---- MODULE Spec2Model ----
(***************************************************************************)
(* A model of S3ToPostgresOperator (dags/operators/s3_to_postgres_operator *)
(* .py): one run of execute() against an object store and a relational    *)
(* store.  Every statement of execute() that touches a store is one step;  *)
(* an exception ends the run in pc = "failed" with the Python exception    *)
(* class in `error`.  The stores are collaborators: a call to them either  *)
(* succeeds or raises, chosen nondeterministically.                        *)
(***************************************************************************)
EXTENDS Integers, Sequences, FiniteSets, TLC

(* ----------------------------- bounds --------------------------------- *)
\* longest decoded document (number of elements of the top-level array)
MaxRecords == 3
\* most objects under the prefix, and the key range, in the selection spec
MaxObjects == 3
\* last-modified timestamps range over 1..MaxTime
MaxTime == 3

(* ------------------------ JSON values and records --------------------- *)
\* Python None: what dict.get(k, None) yields for an absent key, and what
\* json.loads yields for JSON null.
None == "None"
\* a JSON string, the empty JSON string, the JSON number zero
Str == "x"
EmptyStr == ""
Zero == "0"
\* a value that is itself a JSON object (a record that is not flat)
Nested == "{...}"

\* a VALUES clause whose address and city placeholders are exchanged
PlaceholdersSwapped ==
    << ":id", ":created_at", ":updated_at", "eviction_id", "city", "address",
       "state", "zip", "file_date", "non_payment", "breach", "nuisance",
       "illegal_use", "failure_to_sign_renewal", "access_denial",
       "unapproved_subtenant", "owner_move_in", "demolition",
       "capital_improvement", "substantial_rehab", "ellis_act_withdrawal",
       "condo_conversion", "roommate_same_unit", "other_cause",
       "late_payments", "lead_remediation", "development",
       "good_samaritan_ends", "constraints_date", "supervisor_district",
       "neighborhood" >>

\* the names %(...)s of the VALUES clause, in the order written
Placeholders ==
    << ":id", ":created_at", ":updated_at", "eviction_id", "address", "city",
       "state", "zip", "file_date", "non_payment", "breach", "nuisance",
       "illegal_use", "failure_to_sign_renewal", "access_denial",
       "unapproved_subtenant", "owner_move_in", "demolition",
       "capital_improvement", "substantial_rehab", "ellis_act_withdrawal",
       "condo_conversion", "roommate_same_unit", "other_cause",
       "late_payments", "lead_remediation", "development",
       "good_samaritan_ends", "constraints_date", "supervisor_district",
       "neighborhood" >>

\* the column list of the INSERT, in the order written
Columns ==
    << "raw_id", "created_at", "updated_at", "eviction_id", "address", "city",
       "state", "zip", "file_date", "non_payment", "breach", "nuisance",
       "illegal_use", "failure_to_sign_renewal", "access_denial",
       "unapproved_subtenant", "owner_move_in", "demolition",
       "capital_improvement", "substantial_rehab", "ellis_act_withdrawal",
       "condo_conversion", "roommate_same_unit", "other_cause",
       "late_payments", "lead_remediation", "development",
       "good_samaritan_ends", "constraints_date", "supervisor_district",
       "neighborhood" >>

\* the keys the generator reads with line[k]  (a missing key raises)
SubscriptKeys == << ":id", ":created_at", ":updated_at", "eviction_id" >>

\* the keys the generator reads with line.get(k, None)
GetKeys ==
    << "address", "city", "state", "zip", "file_date", "non_payment",
       "breach", "nuisance", "illegal_use", "failure_to_sign_renewal",
       "access_denial", "unapproved_subtenant", "owner_move_in", "demolition",
       "capital_improvement", "substantial_rehab", "ellis_act_withdrawal",
       "condo_conversion", "roommate_same_unit", "other_cause",
       "late_payments", "lead_remediation", "development",
       "good_samaritan_ends", "constraints_date", "supervisor_district",
       "neighborhood" >>

Range(s) == { s[i] : i \in 1..Len(s) }

\* a dict with no key
EmptyDict == [ k \in {} |-> None ]

\* JSON elements of a document: [kind, fields]; fields is the dict of an
\* "object" element and empty for the others
Obj(d) == [ kind |-> "object", fields |-> d ]
Scalar == [ kind |-> "number", fields |-> EmptyDict ]
KeyStr == [ kind |-> "string", fields |-> EmptyDict ]

SystemKeys == { ":id", ":created_at", ":updated_at" }

\* the records the documents are built from; e tags the record's eviction_id
RecFull(e) ==
    Obj([ k \in Range(Placeholders) |-> IF k = "eviction_id" THEN e ELSE Str ])
RecMin(e) ==
    Obj([ k \in SystemKeys \cup {"eviction_id"} |->
            IF k = "eviction_id" THEN e ELSE Str ])
RecOnlyEvictionId(e) == Obj([ k \in {"eviction_id"} |-> e ])
RecNoEvictionId ==
    Obj([ k \in SystemKeys \cup {"address", "city"} |-> Str ])
RecFalsy(e) ==
    Obj([ k \in SystemKeys \cup {"eviction_id", "address", "zip", "breach"} |->
            CASE k = "eviction_id" -> e
              [] k = "address" -> EmptyStr
              [] k = "zip" -> Zero
              [] k = "breach" -> None
              [] OTHER -> Str ])
RecNested(e) ==
    Obj([ k \in SystemKeys \cup {"eviction_id", "address"} |->
            CASE k = "eviction_id" -> e
              [] k = "address" -> Nested
              [] OTHER -> Str ])

\* elements a document may hold, for the object with key e
ElemPool(e) ==
    { RecFull(e), RecMin(e), RecOnlyEvictionId(e), RecNoEvictionId,
      RecFalsy(e), RecNested(e), Scalar }

SeqsUpTo(S, n) == UNION { [ 1..m -> S ] : m \in 0..n }

\* an object body: bytes that are or are not UTF-8, text that is or is not
\* JSON, and the value json.loads returns: its kind and, for the kinds
\* Python can iterate, what iter() yields (the elements of an array, the
\* keys of an object)
Body(utf8, json, kind, items) ==
    [ utf8 |-> utf8, json |-> json, kind |-> kind, items |-> items ]
ArrayBody(items) == Body(TRUE, TRUE, "array", items)
ObjectBody(n) == Body(TRUE, TRUE, "object", [ i \in 1..n |-> KeyStr ])
NumberBody == Body(TRUE, TRUE, "number", << >>)
BadJsonBody == Body(TRUE, FALSE, "none", << >>)
BadUtf8Body == Body(FALSE, FALSE, "none", << >>)

\* bodies of the load specification
BodyPool(e) ==
    { ArrayBody(s) : s \in SeqsUpTo(ElemPool(e), MaxRecords) }
      \cup { ObjectBody(0), ObjectBody(1), NumberBody, BadJsonBody, BadUtf8Body }


(* ------------------------------ state --------------------------------- *)
VARIABLES
    get_latest,    \* self.get_latest
    s3_objects,    \* the objects under (s3_bucket, s3_prefix), in listing order
    pc,            \* the statement of execute() that runs next
    s3_obj,        \* the local s3_obj: << >> while unbound, else <<object>>
    file_content,  \* the local file_content: << >> while unbound
    json_content,  \* the local json_content: << >> while unbound
    pg_conn,       \* the connection of line 66: acquired, status, commits, rollbacks
    gen,           \* how many items the generator of line 125-157 has consumed
    params,        \* the parameter groups the generator has yielded so far
    pending,       \* rows executed on cur and not yet committed
    table,         \* rows committed to schema.table since the run began
    error,         \* the exception that left execute()
    result,        \* what execute() returned
    calls          \* the calls made to the two stores, in order

vars == << get_latest, s3_objects, pc, s3_obj, file_content, json_content,
           pg_conn, gen, params, pending, table, error, result, calls >>

\* an exception: its Python class, what it names, and the statement that
\* raised it
NoError == [ class |-> "", arg |-> "", at |-> "" ]
Exc(c, a, at) == [ class |-> c, arg |-> a, at |-> at ]

\* the value execute() returns: Python None, or a row count
ReturnsNone == [ kind |-> "None", count |-> 0 ]
ReturnsCount(n) == [ kind |-> "int", count |-> n ]
NotReturned == [ kind |-> "unset", count |-> 0 ]

\* the objects of the store: key, last-modified time, content
S3Object(k, t, b) == [ Key |-> k, LastModified |-> t, Body |-> b ]

IsInjective(s) == \A i, j \in 1..Len(s) : s[i] = s[j] => i = j

\* the bodies of the selection specification: the object with key k holds a
\* document that names k
SelectBodies(k) ==
    << ArrayBody(<< RecMin(ToString(k)) >>),
       ArrayBody(<< RecFull(ToString(k)), RecOnlyEvictionId(ToString(k)) >>),
       ArrayBody(<< RecNested(ToString(k)) >>),
       NumberBody, BadJsonBody, BadUtf8Body >>

InitRun ==
    /\ pc = "select"
    /\ s3_obj = << >>
    /\ file_content = << >>
    /\ json_content = << >>
    /\ pg_conn = [ acquired |-> FALSE, status |-> "none", commits |-> 0,
                   rollbacks |-> 0 ]
    /\ gen = 0
    /\ params = << >>
    /\ pending = << >>
    /\ table = << >>
    /\ error = NoError
    /\ result = NotReturned
    /\ calls = << >>

\* the load specification: the prefix is empty or holds one object, with
\* any body of BodyPool
Init ==
    /\ get_latest \in BOOLEAN
    /\ \/ s3_objects = << >>
       \/ \E b \in BodyPool("1") : s3_objects = << S3Object(1, 1, b) >>
    /\ InitRun

\* the selection specification: up to MaxObjects objects with distinct keys,
\* any timestamps, in any listing order
InitSelect ==
    /\ get_latest \in BOOLEAN
    /\ \E n \in 0..MaxObjects, b \in DOMAIN SelectBodies(1) :
         \E ks \in [ 1..n -> 1..MaxObjects ], ts \in [ 1..n -> 1..MaxTime ] :
            /\ IsInjective(ks)
            /\ s3_objects =
                  [ i \in 1..n |-> S3Object(ks[i], ts[i], SelectBodies(ks[i])[b]) ]
    /\ InitRun

(* --------------------------- the object store ------------------------- *)
\* list_objects_v2: the response carries the key "Contents" only when some
\* object matches the prefix
list_objects_v2(objs) ==
    IF objs = << >>
    THEN [ KeyCount |-> 0 ]
    ELSE [ KeyCount |-> Len(objs),
           Contents |-> [ i \in 1..Len(objs) |->
                            [ Key |-> objs[i].Key,
                              LastModified |-> objs[i].LastModified ] ] ]

\* get_object: the object stored under the key
get_object(objs, k) == CHOOSE o \in Range(objs) : o.Key = k

\* Python's max(objects, key=lambda x: x['LastModified']) on a non-empty
\* list: a left-to-right fold that replaces the retained item only by an
\* item whose key is strictly greater
\* a fold that also replaces the retained item by one with an equal key
RECURSIVE MaxFoldNonStrict(_, _, _)
MaxFoldNonStrict(objects, i, best) ==
    IF i > Len(objects) THEN best
    ELSE MaxFoldNonStrict(objects, i + 1,
                          IF objects[i].LastModified >= best.LastModified
                          THEN objects[i] ELSE best)

RECURSIVE MaxFold(_, _, _)
MaxFold(objects, i, best) ==
    IF i > Len(objects) THEN best
    ELSE MaxFold(objects, i + 1,
                 IF objects[i].LastModified > best.LastModified
                 THEN objects[i] ELSE best)
\* a selection that trusts the listing order and takes the last object listed
PyMaxLastListed(objects) == objects[Len(objects)]
PyMax(objects) == MaxFold(objects, 2, objects[1])

(* ------------------------- the relational store ----------------------- *)
\* what DbApiHook.insert_rows(table, ['1','2','3']) inserts: each row is a
\* one-character string, so each INSERT binds one value, to the first column
HookRows == << "1", "2", "3" >>
HookRow(cell) ==
    [ c \in Range(Columns) |-> IF c = Columns[1] THEN cell ELSE None ]

\* the values Postgres can be sent: psycopg2 adapts str, int and None, and
\* refuses a dict
CanAdapt(v) == v # Nested

\* the row the statement inserts for one parameter group: the i-th column
\* receives the value of the i-th placeholder
BindRow(p) ==
    [ c \in Range(Columns) |->
        p[Placeholders[CHOOSE i \in 1..Len(Columns) : Columns[i] = c]] ]

(* --------------------------- the generator ---------------------------- *)
\* the first key the dict display of lines 125-157 fails on, or "" if none
FirstMissing(line) ==
    IF \E i \in 1..Len(SubscriptKeys) : SubscriptKeys[i] \notin DOMAIN line
    THEN SubscriptKeys[CHOOSE i \in 1..Len(SubscriptKeys) :
             /\ SubscriptKeys[i] \notin DOMAIN line
             /\ \A j \in 1..(i - 1) : SubscriptKeys[j] \in DOMAIN line]
    ELSE ""

\* a lookup that takes a falsy value for an absent one: line.get(key) or None
DictGetOrNone(line, k) ==
    IF k \in DOMAIN line /\ line[k] \notin { EmptyStr, Zero } THEN line[k] ELSE None

\* dict.get(key, None)
DictGet(line, k) == IF k \in DOMAIN line THEN line[k] ELSE None

\* the parameter group built from one record that has the subscripted keys
MapLine(line) ==
    [ k \in Range(SubscriptKeys) \cup Range(GetKeys) |->
        IF k \in Range(SubscriptKeys) THEN line[k] ELSE DictGet(line, k) ]

(* ------------------------------ execute ------------------------------- *)
Fail(c, a) ==
    /\ pc' = "failed"
    /\ error' = Exc(c, a, pc)

\* lines 57-60: in latest mode list the prefix, take the maximum by
\* LastModified and fetch it; otherwise s3_obj stays unbound
Select ==
    /\ pc = "select"
    /\ UNCHANGED << get_latest, s3_objects, file_content, json_content,
                    pg_conn, gen, params, pending, table, result >>
    /\ IF get_latest
       THEN \/ \* list_objects_v2 raises
               /\ Fail("ClientError", "list_objects_v2")
               /\ calls' = Append(calls, "s3.list")
               /\ UNCHANGED s3_obj
            \/ \* the response has no 'Contents'
               /\ "Contents" \notin DOMAIN list_objects_v2(s3_objects)
               /\ Fail("KeyError", "Contents")
               /\ calls' = Append(calls, "s3.list")
               /\ UNCHANGED s3_obj
            \/ \* get_object raises
               /\ "Contents" \in DOMAIN list_objects_v2(s3_objects)
               /\ Fail("ClientError", "get_object")
               /\ calls' = calls \o << "s3.list", "s3.get" >>
               /\ UNCHANGED s3_obj
            \/ /\ "Contents" \in DOMAIN list_objects_v2(s3_objects)
               /\ LET latest == PyMax(list_objects_v2(s3_objects).Contents)
                  IN  s3_obj' = << get_object(s3_objects, latest.Key) >>
               /\ calls' = calls \o << "s3.list", "s3.get" >>
               /\ pc' = "read"
               /\ UNCHANGED error
       ELSE /\ pc' = "read"
            /\ UNCHANGED << s3_obj, error, calls >>

\* line 62: s3_obj['Body'].read().decode('utf-8')
Read ==
    /\ pc = "read"
    /\ UNCHANGED << get_latest, s3_objects, s3_obj, json_content, pg_conn,
                    gen, params, pending, table, result, calls >>
    /\ IF s3_obj = << >>
       THEN /\ Fail("UnboundLocalError", "s3_obj")
            /\ UNCHANGED file_content
       ELSE IF ~ s3_obj[1].Body.utf8
       THEN /\ Fail("UnicodeDecodeError", "")
            /\ UNCHANGED file_content
       ELSE /\ file_content' = << [ json |-> s3_obj[1].Body.json,
                                    kind |-> s3_obj[1].Body.kind,
                                    items |-> s3_obj[1].Body.items ] >>
            /\ pc' = "loads"
            /\ UNCHANGED error

\* an execute() that acquires the connection before it parses the text
LoadsAfterConnect ==
    /\ pc = "loads"
    /\ UNCHANGED << get_latest, s3_objects, s3_obj, file_content,
                    gen, params, pending, table, result >>
    /\ calls' = Append(calls, "pg.connect")
    /\ pg_conn' = [ pg_conn EXCEPT !.acquired = TRUE, !.status = "ready" ]
    /\ IF ~ file_content[1].json
       THEN /\ Fail("JSONDecodeError", "")
            /\ UNCHANGED json_content
       ELSE /\ json_content' = << [ kind |-> file_content[1].kind,
                                    items |-> file_content[1].items ] >>
            /\ pc' = "get_conn"
            /\ UNCHANGED error

\* line 63: json.loads(file_content)
Loads ==
    /\ pc = "loads"
    /\ UNCHANGED << get_latest, s3_objects, s3_obj, file_content, pg_conn,
                    gen, params, pending, table, result, calls >>
    /\ IF ~ file_content[1].json
       THEN /\ Fail("JSONDecodeError", "")
            /\ UNCHANGED json_content
       ELSE /\ json_content' = << [ kind |-> file_content[1].kind,
                                    items |-> file_content[1].items ] >>
            /\ pc' = "get_conn"
            /\ UNCHANGED error


\* lines 65-67: PostgresHook.get_conn() and pg_conn.cursor()
GetConn ==
    /\ pc = "get_conn"
    /\ UNCHANGED << get_latest, s3_objects, s3_obj, file_content,
                    json_content, gen, params, pending, table, result >>
    /\ calls' = Append(calls, "pg.connect")
    /\ \/ /\ Fail("OperationalError", "connect")
          /\ UNCHANGED pg_conn
       \/ /\ pg_conn' = [ pg_conn EXCEPT !.acquired = TRUE, !.status = "ready" ]
          /\ pc' = "insert_rows"
          /\ UNCHANGED error

\* line 80: pg_hook.insert_rows(f'{schema}.{table}', ['1','2','3']).  The
\* hook opens a connection of its own, executes one INSERT per row and
\* commits it; pg_conn is not involved.
InsertRows ==
    /\ pc = "insert_rows"
    /\ UNCHANGED << get_latest, s3_objects, s3_obj, file_content,
                    json_content, pg_conn, gen, params, pending, result >>
    /\ \/ \* the store rejects one of the three statements
          /\ Fail("DatabaseError", "insert_rows")
          /\ calls' = calls \o << "hook.connect", "hook.insert" >>
          /\ UNCHANGED table
       \/ /\ table' = table \o [ i \in 1..Len(HookRows) |-> HookRow(HookRows[i]) ]
          /\ calls' = calls \o << "hook.connect", "hook.insert", "hook.commit" >>
          /\ pc' = "executemany"
          /\ UNCHANGED error

\* lines 83 and 157: the arguments of cur.executemany are evaluated; the
\* generator expression calls iter(json_content) at once
ExecuteMany ==
    /\ pc = "executemany"
    /\ UNCHANGED << get_latest, s3_objects, s3_obj, file_content,
                    json_content, pg_conn, gen, params, pending, table,
                    result, calls >>
    /\ IF json_content[1].kind \in {"array", "object", "string"}
       THEN /\ pc' = "next"
            /\ UNCHANGED error
       ELSE Fail("TypeError", "not iterable")

\* a generator that hands the parameter groups over newest first
GenNextNewestFirst ==
    /\ pc = "next"
    /\ UNCHANGED << get_latest, s3_objects, s3_obj, file_content,
                    json_content, pg_conn, pending, table, result, calls >>
    /\ IF gen = Len(json_content[1].items)
       THEN /\ pc' = "commit"
            /\ UNCHANGED << gen, params, error >>
       ELSE LET line == json_content[1].items[gen + 1]
            IN  /\ gen' = gen + 1
                /\ IF line.kind # "object"
                   THEN /\ Fail("TypeError", ":id")
                        /\ UNCHANGED params
                   ELSE IF FirstMissing(line.fields) # ""
                   THEN /\ Fail("KeyError", FirstMissing(line.fields))
                        /\ UNCHANGED params
                   ELSE /\ params' = << MapLine(line.fields) >> \o params
                        /\ pc' = "execute"
                        /\ UNCHANGED error

\* a generator that skips a record it cannot map instead of raising
GenNextSkipsBadRecord ==
    /\ pc = "next"
    /\ UNCHANGED << get_latest, s3_objects, s3_obj, file_content,
                    json_content, pg_conn, pending, table, result, calls >>
    /\ IF gen = Len(json_content[1].items)
       THEN /\ pc' = "commit"
            /\ UNCHANGED << gen, params, error >>
       ELSE LET line == json_content[1].items[gen + 1]
            IN  /\ gen' = gen + 1
                /\ IF line.kind # "object" \/ FirstMissing(line.fields) # ""
                   THEN UNCHANGED << pc, params, error >>
                   ELSE /\ params' = Append(params, MapLine(line.fields))
                        /\ pc' = "execute"
                        /\ UNCHANGED error

\* executemany asks the generator for the next parameter group: lines
\* 125-157 run for the next element of json_content, or the generator ends
GenNext ==
    /\ pc = "next"
    /\ UNCHANGED << get_latest, s3_objects, s3_obj, file_content,
                    json_content, pg_conn, pending, table, result, calls >>
    /\ IF gen = Len(json_content[1].items)
       THEN /\ pc' = "commit"
            /\ UNCHANGED << gen, params, error >>
       ELSE LET line == json_content[1].items[gen + 1]
            IN  /\ gen' = gen + 1
                /\ IF line.kind # "object"
                   THEN /\ Fail("TypeError", ":id")
                        /\ UNCHANGED params
                   ELSE IF FirstMissing(line.fields) # ""
                   THEN /\ Fail("KeyError", FirstMissing(line.fields))
                        /\ UNCHANGED params
                   ELSE /\ params' = Append(params, MapLine(line.fields))
                        /\ pc' = "execute"
                        /\ UNCHANGED error

\* executemany runs the statement with the parameter group just yielded
CurExecute ==
    /\ pc = "execute"
    /\ UNCHANGED << get_latest, s3_objects, s3_obj, file_content,
                    json_content, gen, params, table, result >>
    /\ LET p == params[Len(params)]
       IN  IF \E i \in 1..Len(Placeholders) : Placeholders[i] \notin DOMAIN p
           THEN /\ Fail("KeyError", "placeholder")
                /\ UNCHANGED << pg_conn, pending, calls >>
           ELSE IF \E k \in DOMAIN p : ~ CanAdapt(p[k])
           THEN /\ Fail("ProgrammingError", "can't adapt")
                /\ UNCHANGED << pg_conn, pending, calls >>
           ELSE /\ calls' = Append(calls, "pg.execute")
                /\ pg_conn' = [ pg_conn EXCEPT !.status = "begin" ]
                /\ \/ \* the store rejects the row
                      /\ Fail("DatabaseError", "execute")
                      /\ UNCHANGED pending
                   \/ /\ pending' = Append(pending, BindRow(p))
                      /\ pc' = "next"
                      /\ UNCHANGED error

\* line 161: pg_conn.commit()
Commit ==
    /\ pc = "commit"
    /\ UNCHANGED << get_latest, s3_objects, s3_obj, file_content,
                    json_content, gen, params, result >>
    /\ calls' = Append(calls, "pg.commit")
    /\ \/ /\ Fail("OperationalError", "commit")
          /\ UNCHANGED << pg_conn, pending, table >>
       \/ /\ pg_conn' = [ pg_conn EXCEPT !.status = "ready",
                                         !.commits = @ + 1 ]
          /\ table' = table \o pending
          /\ pending' = << >>
          /\ pc' = "close"
          /\ UNCHANGED error

\* line 162: cur.close(); execute ends without a return statement
Close ==
    /\ pc = "close"
    /\ UNCHANGED << get_latest, s3_objects, s3_obj, file_content,
                    json_content, pg_conn, gen, params, pending, table,
                    error, calls >>
    /\ result' = ReturnsNone
    /\ pc' = "done"

Next ==
    \/ Select
    \/ Read
    \/ Loads
    \/ GetConn
    \/ InsertRows
    \/ ExecuteMany
    \/ GenNext
    \/ CurExecute
    \/ Commit
    \/ Close

Spec == Init /\ [][Next]_vars

SpecSelect == InitSelect /\ [][Next]_vars

TypeOK ==
    /\ pc \in { "select", "read", "loads", "get_conn", "insert_rows",
                "executemany", "next", "execute", "commit", "close",
                "done", "failed" }
    /\ pg_conn.rollbacks = 0


(* ------------------------------ claims -------------------------------- *)
Count(seq, x) == Cardinality({ i \in 1..Len(seq) : seq[i] = x })
Terminated == pc \in { "done", "failed" }
Decoded == json_content # << >>
Items == json_content[1].items

\* C1: a run that fails leaves the target table unchanged: no row written by
\* this run is visible in the table afterwards.
C1_FailedRunLeavesTableUnchanged ==
    pc = "failed" => table = << >>

\* a record (an element that is a mapping) without the field eviction_id
LacksEvictionId(e) == e.kind = "object" /\ "eviction_id" \notin DOMAIN e.fields

\* C2: if a decoded record lacks eviction_id the run fails, no commit is
\* issued against the relational store at any point of the run and the table
\* is unchanged, wherever the record stands in the batch.
C2_MissingFieldMeansNoCommit ==
    (Decoded /\ \E i \in 1..Len(Items) : LacksEvictionId(Items[i]))
        => /\ pc # "done"
           /\ Count(calls, "pg.commit") + Count(calls, "hook.commit") = 0
           /\ table = << >>

\* C3: a run that fails after the connection was acquired has called
\* rollback on it before the error leaves execute.
C3_RollbackBeforeErrorLeaves ==
    (pc = "failed" /\ pg_conn.acquired /\ error.at \in { "next", "execute" })
        => pg_conn.rollbacks > 0

\* C4: pg_conn.commit() is reached, and the transaction committed, only
\* after the statement has been executed successfully for every decoded
\* record: every element was mapped, every row was accepted, none failed.
C4_CommitOnlyAfterEveryRowExecuted ==
    (pc = "commit" \/ pg_conn.commits > 0)
        => /\ gen = Len(Items)
           /\ Len(params) = Len(Items)
           /\ \A i \in 1..Len(Items) : Items[i].kind = "object"
           /\ Count(calls, "pg.execute") = Len(Items)
           /\ IF pg_conn.commits > 0
              THEN /\ Len(table) = Len(HookRows) + Len(Items)
                   /\ error = NoError
              ELSE Len(pending) = Len(Items)

C4_Witness ==
    /\ pg_conn.commits > 0
    /\ Len(Items) >= 2
    /\ pc = "done"

\* C5: a run that completes returns a row count equal to the number of
\* decoded records, and has added exactly that many rows to the table.
C5_ReturnsAndAddsN ==
    pc = "done"
        => /\ result = ReturnsCount(Len(Items))
           /\ Len(table) = Len(Items)

\* C6: without latest mode no listing call is made and the run goes on to
\* read an object: past the read step, s3_obj holds the object.
C6_ExplicitKeyIsRead ==
    (~ get_latest /\ pc \notin { "select", "read" })
        => /\ Count(calls, "s3.list") = 0
           /\ s3_obj # << >>

PairwiseDistinctTimes ==
    \A i, j \in 1..Len(s3_objects) :
        s3_objects[i].LastModified = s3_objects[j].LastModified => i = j

\* C7: in latest mode, over a listing with pairwise distinct timestamps in
\* any listing order, the object read is the one with the greatest
\* last-modified timestamp.
C7_LatestIsMaximum ==
    (get_latest /\ s3_obj # << >> /\ PairwiseDistinctTimes)
        => /\ s3_obj[1] \in Range(s3_objects)
           /\ \A i \in 1..Len(s3_objects) :
                s3_objects[i].LastModified <= s3_obj[1].LastModified

C7_Witness ==
    /\ get_latest
    /\ s3_obj # << >>
    /\ PairwiseDistinctTimes
    /\ Len(s3_objects) >= 3
    /\ s3_obj[1] = s3_objects[2]

\* C8: in latest mode an empty listing makes the run fail with NotFoundError
\* and no other kind, with no object read and no relational-store call.
C8_EmptyListingIsNotFound ==
    (get_latest /\ s3_objects = << >> /\ pc = "failed"
        /\ error.arg # "list_objects_v2")
        => /\ error.class = "NotFoundError"
           /\ calls = << "s3.list" >>

\* a decoded value that is not a sequence of flat mappings
NotFlatRecords(v) ==
    \/ v.kind # "array"
    \/ \E i \in 1..Len(v.items) :
          \/ v.items[i].kind # "object"
          \/ \E k \in DOMAIN v.items[i].fields : v.items[i].fields[k] = Nested

\* C9: a document that is not a sequence of flat mappings fails at the
\* decode stage: no relational-store connection is ever acquired and no
\* statement is executed or committed.
C9_FormatErrorBeforeConnection ==
    (Decoded /\ NotFlatRecords(json_content[1]))
        => /\ ~ pg_conn.acquired
           /\ \A i \in 1..Len(calls) :
                calls[i] \notin { "hook.insert", "hook.commit", "pg.execute",
                                  "pg.commit" }

\* C10: a record that holds only eviction_id is mapped to a parameter group
\* whose 27 optional columns are all the explicit null.
C10_OnlyEvictionIdMapsToNulls ==
    Decoded =>
        \A i \in 1..gen :
            (Items[i].kind = "object" /\ DOMAIN Items[i].fields = { "eviction_id" })
                => /\ Len(params) >= i
                   /\ \A k \in Range(GetKeys) : params[i][k] = None

\* C11: eviction_id is the only field a record must carry: a record that has
\* eviction_id is always mapped to a parameter group, whatever other fields
\* it has or lacks.
C11_OnlyEvictionIdIsRequired ==
    Decoded =>
        \A i \in 1..gen :
            (Items[i].kind = "object" /\ "eviction_id" \in DOMAIN Items[i].fields)
                => Len(params) >= i

\* the value a parameter group must hold under key k for a record: the
\* record's own value when it has the field, the null otherwise
ExpectedValue(fields, k) == IF k \in DOMAIN fields THEN fields[k] ELSE None

\* C12: the parameter groups handed to the batched insert follow the decoded
\* records in length and order: the i-th group is the mapping of the i-th
\* record, and when the batch has been handed over whole there is one group
\* per record.
C12_ParamsPreserveRecordOrder ==
    Decoded =>
        /\ Len(params) <= Len(Items)
        /\ \A i \in 1..Len(params) :
              /\ Items[i].kind = "object"
              /\ DOMAIN params[i] = Range(Placeholders)
              /\ \A k \in Range(Placeholders) :
                    params[i][k] = ExpectedValue(Items[i].fields, k)
        /\ pc \in { "commit", "close", "done" } => Len(params) = Len(Items)

C12_Witness ==
    /\ pc = "commit"
    /\ Len(params) >= 2
    /\ params[1] # params[2]

\* C13: a run makes at most one listing, one read and one transactional
\* load: the batched insert on pg_conn is the only write to the target
\* table, and nothing is inserted or committed on any other connection.
C13_SingleTransactionalLoad ==
    /\ Count(calls, "s3.list") <= 1
    /\ Count(calls, "s3.get") <= 1
    /\ Count(calls, "pg.connect") <= 1
    /\ Count(calls, "pg.commit") <= 1
    /\ Count(calls, "hook.connect") = 0
    /\ Count(calls, "hook.insert") = 0
    /\ Count(calls, "hook.commit") = 0

\* C14: mapping comes before executing: every record of the batch has been
\* mapped before the first row is executed, so a run that fails while
\* mapping a record has sent no row of the batch to the store.
C14_AllMappedBeforeFirstExecute ==
    Decoded =>
        /\ Count(calls, "pg.execute") > 0 => gen = Len(Items)
        /\ (pc = "failed" /\ error.at = "next") => Count(calls, "pg.execute") = 0

\* the record field that belongs to a column: the column's own name, and
\* for the three system columns the field the record carries them under
SourceField(c) ==
    CASE c = "raw_id" -> ":id"
      [] c = "created_at" -> ":created_at"
      [] c = "updated_at" -> ":updated_at"
      [] OTHER -> c

\* C15: the column list and the placeholder list of the statement have the
\* same length and match position by position, every placeholder has a key
\* in each parameter group, and so every executed row holds, in each
\* column, the value of the field that belongs to that column.
C15_ColumnsMatchPlaceholders ==
    /\ Len(Columns) = Len(Placeholders)
    /\ \A i \in 1..Len(Columns) : Placeholders[i] = SourceField(Columns[i])
    /\ \A j \in 1..Len(params) : Range(Placeholders) \subseteq DOMAIN params[j]
    /\ \A j \in 1..Len(pending) :
          \A c \in Range(Columns) :
              pending[j][c] = ExpectedValue(Items[j].fields, SourceField(c))

C15_Witness ==
    /\ Len(pending) >= 2
    /\ pending[2]["address"] # pending[2]["city"]
    /\ pending[2]["zip"] # pending[2]["breach"]

\* the listing positions that carry the greatest last-modified timestamp
MaxPositions ==
    { i \in 1..Len(s3_objects) :
        \A j \in 1..Len(s3_objects) :
            s3_objects[j].LastModified <= s3_objects[i].LastModified }

\* C16: in latest mode, when several listed objects share the greatest
\* timestamp, the object read is the first of them in listing order: a
\* later object with an equal timestamp never replaces it.
C16_TieKeepsFirstListed ==
    (get_latest /\ s3_obj # << >>)
        => \E i \in MaxPositions :
              /\ s3_obj[1] = s3_objects[i]
              /\ \A j \in MaxPositions : i <= j

C16_Witness ==
    /\ get_latest
    /\ s3_obj # << >>
    /\ Cardinality(MaxPositions) >= 2
    /\ 1 \notin MaxPositions
    /\ \E i \in MaxPositions : s3_obj[1] = s3_objects[i]

\* C17: for every optional column the bound value depends only on whether
\* the record has the field: a field that is present is bound unchanged,
\* also when it is the empty string, zero or null, and the null default is
\* bound only for a field the record lacks.
C17_OptionalBoundByPresence ==
    Decoded =>
        \A i \in 1..Len(params) :
            \A k \in Range(GetKeys) :
                /\ k \in DOMAIN Items[i].fields => params[i][k] = Items[i].fields[k]
                /\ k \notin DOMAIN Items[i].fields => params[i][k] = None

C17_Witness ==
    /\ Decoded
    /\ \E i \in 1..Len(params) :
          /\ { "address", "zip", "breach" } \subseteq DOMAIN Items[i].fields
          /\ "city" \notin DOMAIN Items[i].fields
          /\ params[i]["address"] = EmptyStr
          /\ params[i]["zip"] = Zero
          /\ params[i]["breach"] = None
          /\ params[i]["city"] = None

\* the calls that reach the relational store
RelationalCalls ==
    { "pg.connect", "pg.execute", "pg.commit",
      "hook.connect", "hook.insert", "hook.commit" }
NoRelationalCall ==
    /\ ~ pg_conn.acquired
    /\ \A i \in 1..Len(calls) : calls[i] \notin RelationalCalls

\* C18: the stages run in the order selector, decoder, loader: the
\* relational store is reached only after the object was listed, read,
\* UTF-8 decoded and parsed, so a run that fails in listing, reading,
\* decoding or parsing makes no relational-store call at all.
C18_StoreReachedOnlyAfterDecode ==
    /\ ~ NoRelationalCall
          => /\ s3_obj # << >>
             /\ file_content # << >>
             /\ Decoded
             /\ Len(calls) >= 3
             /\ calls[1] = "s3.list" /\ calls[2] = "s3.get"
             /\ \A i \in 3..Len(calls) : calls[i] \in RelationalCalls
    /\ (pc = "failed" /\ error.at \in { "select", "read", "loads" })
          => NoRelationalCall

C18_Witness ==
    /\ pc = "failed"
    /\ error.at = "loads"
    /\ calls = << "s3.list", "s3.get" >>
    /\ NoRelationalCall

====
